---- MODULE Spec2Model ----
(***************************************************************************)
(* A model of main.py of HTMLHP_For_Argus: the parse of the master         *)
(* document into a two-level hierarchy, the selection of a section by      *)
(* template number, the seeded generation of a record of fake values, the  *)
(* substitution of placeholders and pronouns, and the bot-name to          *)
(* (template, seed) lookup with its cache.                                 *)
(*                                                                         *)
(* Text is modelled by TLA+ strings, on which TLC evaluates Len, SubSeq    *)
(* and \o.  A BeautifulSoup fragment is the sequence of its top-level      *)
(* tags, each a record [name, text].                                       *)
(***************************************************************************)
EXTENDS Integers, Sequences, FiniteSets, TLC

VARIABLES doc, nested_sections, rng, calls, sched, BOT_CACHE, bot_visits, now, bots

vars == <<doc, nested_sections, rng, calls, sched, BOT_CACHE, bot_visits, now, bots>>

(***************************************************************************)
(* Python's str methods, as far as main.py uses them.                      *)
(***************************************************************************)
Ch(s, i) == SubSeq(s, i, i)

UpperLetters == "ABCDEFGHIJKLMNOPQRSTUVWXYZ"

LowerLetters == "abcdefghijklmnopqrstuvwxyz"

\* the least element of a non-empty set of integers
Least(S) == CHOOSE k \in S : \A m \in S : k <= m

\* the first of a set of positions, 0 when it is empty
FirstOf(S) == IF S = {} THEN 0 ELSE Least(S)

\* the positions lo..hi at which sub occurs in s
Occurrences(s, sub, lo, hi) == {k \in lo..hi : SubSeq(s, k, k + Len(sub) - 1) = sub}

Min(a, b) == IF a < b THEN a ELSE b

RECURSIVE Find(_, _, _)
RECURSIVE FindOr(_, _, _, _)
\* the 1-based position of the first occurrence of sub in s at or after
\* position i, 0 when there is none (s.find(sub, i - 1) + 1); the search goes
\* through s sixteen positions at a time
Find(s, sub, i) ==
  IF i > Len(s) - Len(sub) + 1 THEN 0
  ELSE FindOr(s, sub, i,
              FirstOf(Occurrences(s, sub, i, Min(i + 15, Len(s) - Len(sub) + 1))))

\* k when sub was found at k, otherwise the search sixteen positions on
FindOr(s, sub, i, k) == IF k # 0 THEN k ELSE Find(s, sub, i + 16)

\* the position of the character c in s at or after i, 0 when absent
IndexIn(s, c, i) == Find(s, c, i)

UpperSet == {Ch(UpperLetters, k) : k \in 1..Len(UpperLetters)}

LowerSet == {Ch(LowerLetters, k) : k \in 1..Len(LowerLetters)}

\* the lower-case letter of each upper-case one, and the converse
LowerOf == [c \in UpperSet |-> Ch(LowerLetters, Find(UpperLetters, c, 1))]

UpperOf == [c \in LowerSet |-> Ch(UpperLetters, Find(LowerLetters, c, 1))]

LowerChar(c) == IF c \in UpperSet THEN LowerOf[c] ELSE c

UpperChar(c) == IF c \in LowerSet THEN UpperOf[c] ELSE c

RECURSIVE Lower(_)
Lower(s) == IF s = "" THEN "" ELSE LowerChar(Ch(s, 1)) \o Lower(SubSeq(s, 2, Len(s)))

RECURSIVE Upper(_)
Upper(s) == IF s = "" THEN "" ELSE UpperChar(Ch(s, 1)) \o Upper(SubSeq(s, 2, Len(s)))

\* str.capitalize(): first character upper-cased, the rest lower-cased
Capitalize(s) == IF s = "" THEN "" ELSE UpperChar(Ch(s, 1)) \o Lower(SubSeq(s, 2, Len(s)))

IsUpperChar(c) == c \in UpperSet

IsLowerChar(c) == c \in LowerSet

IsCased(c) == IsUpperChar(c) \/ IsLowerChar(c)

\* str.islower(): at least one cased character and no upper-case one
IsLower(s) ==
  /\ \E i \in 1..Len(s) : IsCased(Ch(s, i))
  /\ \A i \in 1..Len(s) : ~IsUpperChar(Ch(s, i))

\* str.isupper(): at least one cased character and no lower-case one
IsUpper(s) ==
  /\ \E i \in 1..Len(s) : IsCased(Ch(s, i))
  /\ \A i \in 1..Len(s) : ~IsLowerChar(Ch(s, i))

\* str.istitle(): upper-case characters only after uncased ones, lower-case
\* characters only after cased ones, and at least one cased character
IsTitle(s) ==
  /\ \E i \in 1..Len(s) : IsCased(Ch(s, i))
  /\ \A i \in 1..Len(s) :
       LET prevCased == i > 1 /\ IsCased(Ch(s, i - 1)) IN
       /\ IsUpperChar(Ch(s, i)) => ~prevCased
       /\ IsLowerChar(Ch(s, i)) => prevCased

\* s[i:].startswith(p), i 1-based
StartsWithAt(s, p, i) == i + Len(p) - 1 <= Len(s) /\ SubSeq(s, i, i + Len(p) - 1) = p

StartsWith(s, p) == StartsWithAt(s, p, 1)

\* the Python test `sub in s`
Contains(s, sub) == \E i \in 1..(Len(s) - Len(sub) + 1) : StartsWithAt(s, sub, i)

RECURSIVE ReplaceFrom(_, _, _, _)
RECURSIVE ReplaceAt(_, _, _, _, _)
ReplaceFrom(s, old, new, i) == ReplaceAt(s, old, new, i, Find(s, old, i))

\* the rest of s from i on, old found next at k (0: not found)
ReplaceAt(s, old, new, i, k) ==
  IF k = 0 THEN SubSeq(s, i, Len(s))
  ELSE SubSeq(s, i, k - 1) \o new \o ReplaceFrom(s, old, new, k + Len(old))

\* str.replace(old, new) for a non-empty old: every non-overlapping occurrence,
\* left to right
Replace(s, old, new) == ReplaceFrom(s, old, new, 1)

IsSpace(c) == c = " "

RECURSIVE LStrip(_)
LStrip(s) == IF s # "" /\ IsSpace(Ch(s, 1)) THEN LStrip(SubSeq(s, 2, Len(s))) ELSE s

RECURSIVE RStrip(_)
RStrip(s) ==
  IF s # "" /\ IsSpace(Ch(s, Len(s))) THEN RStrip(SubSeq(s, 1, Len(s) - 1)) ELSE s

Strip(s) == LStrip(RStrip(s))

RECURSIVE CollapseSpaces(_)
\* re.sub(r"\s+", " ", s)
CollapseSpaces(s) ==
  IF s = "" THEN ""
  ELSE IF IsSpace(Ch(s, 1))
       THEN " " \o CollapseSpaces(LStrip(s))
       ELSE Ch(s, 1) \o CollapseSpaces(SubSeq(s, 2, Len(s)))

Digits == "0123456789"

DigitSet == {Ch(Digits, k) : k \in 1..Len(Digits)}

IsDigit(c) == c \in DigitSet

RECURSIVE NatToStr(_)
NatToStr(n) ==
  IF n < 10 THEN Ch(Digits, n + 1) ELSE NatToStr(n \div 10) \o Ch(Digits, (n % 10) + 1)

\* str(n) of a Python int
IntToStr(n) == IF n < 0 THEN "-" \o NatToStr(0 - n) ELSE NatToStr(n)

RECURSIVE StrToNat(_)
\* the value of a string of decimal digits
StrToNat(s) ==
  IF s = "" THEN 0
  ELSE StrToNat(SubSeq(s, 1, Len(s) - 1)) * 10 + (IndexIn(Digits, Ch(s, Len(s)), 1) - 1)

(***************************************************************************)
(* CONFIG and FAKE_DATA_TYPES.                                             *)
(***************************************************************************)
NUM_TEMPLATE_TYPES == 5

TEMPLATES_PER_TYPE == 3

TOTAL_TEMPLATES == 15

CACHE_DURATION_SECONDS == 600

FAKE_DATA_TYPES ==
  << [name |-> "Companies",
      fields |-> << "name", "year", "location", "founder", "number", "product",
                    "employee count", "product 1", "product 2", "product 3",
                    "product", "dollars" >>],
     [name |-> "Artists",
      fields |-> << "name", "date", "location", "year", "nickname", "concert 1",
                    "concert 2", "concert 3", "song 1", "song 2", "song 3",
                    "birth location" >>],
     [name |-> "Products",
      fields |-> << "product name", "year", "price number 1", "price number 2",
                    "price number 3", "person name", "location", "company name",
                    "collab name", "generic email", "phone number",
                    "brand company" >>],
     [name |-> "Politicians",
      fields |-> << "birth date", "name", "allied faction", "main country",
                    "other faction", "country 1", "country 2", "date 1", "date 2",
                    "university name", "birth location", "date 3" >>],
     [name |-> "Researchers",
      fields |-> << "university 1", "date", "name", "science field 1",
                    "science field 2", "birth date", "birth location",
                    "researcher name", "prize name", "journal name 1",
                    "university 2", "country" >>] >>

\* seq[i] of a Python sequence: 0-based, negative indexes count from the end
PyIndexOk(seq, i) == (0 - Len(seq)) <= i /\ i < Len(seq)

PyIndex(seq, i) == seq[(i % Len(seq)) + 1]

(***************************************************************************)
(* The shared generator of Faker (faker.generator.random, one per process, *)
(* used by every Faker() instance).  Its state is the seed it was last     *)
(* seeded with and the number of draws made since; Faker.seed(s) resets    *)
(* it.  The k-th draw after a seeding yields a code that is a function of  *)
(* (seed, k) alone, as a seeded Mersenne Twister does, and the faker       *)
(* providers turn the code into a value.                                   *)
(***************************************************************************)
FakerSeed(seed) == [seed |-> seed, n |-> 0]

\* the code of the draw made k draws from now
Rnd(r, k) == r.seed * 100 + r.n + k

Advance(r, k) == [r EXCEPT !.n = @ + k]

Continents ==
  << "Europe", "Asia", "Africa", "North America", "South America", "Australia",
     "Antarctica" >>

\* FakeName(fake): first_name, last_name and the full name made of them
FakeName(r) ==
  LET fn == "Fn" \o IntToStr(Rnd(r, 0))
      ln == "Ln" \o IntToStr(Rnd(r, 1))
  IN [kind |-> "name", first_name |-> fn, last_name |-> ln, full_name |-> fn \o " " \o ln]

\* FakeLocation(fake): city, country, one of the seven continents, address
FakeLocation(r) ==
  [kind |-> "location",
   city |-> "City" \o IntToStr(Rnd(r, 0)),
   country |-> "Land" \o IntToStr(Rnd(r, 1)),
   continent |-> Continents[(Rnd(r, 2) % Len(Continents)) + 1],
   address |-> IntToStr(Rnd(r, 3)) \o " Main St"]

\* fake.date_object(): a calendar date
FakeDate(r) ==
  [kind |-> "date", year |-> 1970 + (Rnd(r, 0) % 50), month |-> 1 + (Rnd(r, 0) % 12),
   day |-> 1 + ((Rnd(r, 0) * 7) % 28)]

\* fake.random_int(min=1, max=10000)
FakeInt(r) == [kind |-> "int", v |-> 1 + ((Rnd(r, 0) * 7919) % 10000)]

\* fake.pydecimal(left_digits=5, right_digits=2, positive=True)
FakeDecimal(r) ==
  [kind |-> "decimal", units |-> (Rnd(r, 0) * 7919) % 100000, cents |-> 1 + (Rnd(r, 0) % 99)]

FakeStr(s) == [kind |-> "str", s |-> s]

FakeWord(r) == "w" \o IntToStr(Rnd(r, 0))

FakeCompany(r) == "Firm" \o IntToStr(Rnd(r, 0))

(***************************************************************************)
(* generate_fake_data_for_type: the ordered, first-match classification of *)
(* a field name and the value drawn for it.  FieldRule is the number of    *)
(* the branch of the if/elif chain that takes the field.                   *)
(***************************************************************************)
FieldRule(field) ==
  LET field_name == Lower(field) IN
  IF Contains(field_name, "name") /\ ~Contains(field_name, "company")
       /\ ~Contains(field_name, "product") THEN 1
  ELSE IF Contains(field_name, "company") \/ Contains(field_name, "brand") THEN 2
  ELSE IF Contains(field_name, "product") THEN 3
  ELSE IF Contains(field_name, "year") \/ Contains(field_name, "date") THEN 4
  ELSE IF Contains(field_name, "location") \/ Contains(field_name, "country")
            \/ Contains(field_name, "city") \/ Contains(field_name, "continent") THEN 5
  ELSE IF Contains(field_name, "email") THEN 6
  ELSE IF Contains(field_name, "phone") THEN 7
  ELSE IF Contains(field_name, "number") \/ Contains(field_name, "count") THEN 8
  ELSE IF Contains(field_name, "dollars") \/ Contains(field_name, "price") THEN 9
  ELSE IF Contains(field_name, "song") \/ Contains(field_name, "concert")
            \/ Contains(field_name, "collab") THEN 10
  ELSE IF Contains(field_name, "nickname") THEN 11
  ELSE IF Contains(field_name, "science field") THEN 12
  ELSE IF Contains(field_name, "prize") THEN 13
  ELSE IF Contains(field_name, "journal") THEN 14
  ELSE IF Contains(field_name, "university") THEN 15
  ELSE IF Contains(field_name, "faction") THEN 16
  ELSE 17

\* the branch taken by each field of each type, in the order of FAKE_DATA_TYPES
RuleTable ==
  [t \in 1..Len(FAKE_DATA_TYPES) |->
     [i \in 1..Len(FAKE_DATA_TYPES[t].fields) |-> FieldRule(FAKE_DATA_TYPES[t].fields[i])]]

\* the value appended to result by branch rule, drawn from the generator in
\* state r
DrawValue(rule, r) ==
  CASE rule = 1 -> FakeName(r)
    [] rule = 2 -> FakeStr(FakeCompany(r))
    [] rule = 3 -> FakeStr(FakeWord(r))
    [] rule = 4 -> FakeDate(r)
    [] rule = 5 -> FakeLocation(r)
    [] rule = 6 -> FakeStr("e" \o IntToStr(Rnd(r, 0)) \o "@x.org")
    [] rule = 7 -> FakeStr("555-" \o IntToStr(Rnd(r, 0)))
    [] rule = 8 -> FakeInt(r)
    [] rule = 9 -> FakeDecimal(r)
    [] rule = 10 -> FakeStr(FakeWord(r))
    [] rule = 11 -> FakeStr("user" \o IntToStr(Rnd(r, 0)))
    [] rule = 12 -> FakeStr("job" \o IntToStr(Rnd(r, 0)))
    [] rule = 13 -> FakeStr(FakeWord(r) \o " Prize")
    [] rule = 14 -> FakeStr(Capitalize(FakeWord(r)) \o " Journal")
    [] rule = 15 -> FakeStr(FakeCompany(r) \o " University")
    [] rule = 16 -> FakeStr(Capitalize(FakeWord(r)) \o " Faction")
    [] OTHER -> FakeStr(FakeWord(r))

\* the number of draws branch rule takes from the generator
DrawCount(rule) == IF rule = 1 THEN 2 ELSE IF rule = 5 THEN 4 ELSE 1

RECURSIVE GenerateFrom(_, _, _)
\* the values of the fields i.. of a type with branches rules, drawn one after
\* the other starting in state r
GenerateFrom(rules, i, r) ==
  IF i > Len(rules) THEN << >>
  ELSE << DrawValue(rules[i], r) >>
         \o GenerateFrom(rules, i + 1, Advance(r, DrawCount(rules[i])))

\* the record generate_fake_data_for_type(type_index, seed) returns when nothing
\* else touches the generator between its Faker.seed(seed) and its last draw
RecordAlone(type_index, seed) ==
  GenerateFrom(PyIndex(RuleTable, type_index), 1, FakerSeed(seed))

(***************************************************************************)
(* parse_master_html.  The master document is the sequence of its          *)
(* top-level tags (find_next_siblings() yields tags only).  The hierarchy  *)
(* is an insertion-ordered dict: a sequence of entries [key, kind, h2,     *)
(* body], kind "dict" for a dict of H2 sections (h2: a sequence of [key,   *)
(* body]) and kind "soup" for a BeautifulSoup of direct content (body).    *)
(***************************************************************************)
Tag(name, text) == [name |-> name, text |-> text]

\* d[key] = val on an insertion-ordered dict: an existing key keeps its place
DictSet(d, key, val) ==
  IF \E i \in 1..Len(d) : d[i].key = key
  THEN [i \in 1..Len(d) |-> IF d[i].key = key THEN val ELSE d[i]]
  ELSE Append(d, val)

\* a loop over the siblings without its break: every tag up to the end
SiblingsToEnd(els, i, stop) == SubSeq(els, i, Len(els))

RECURSIVE SiblingsUntil(_, _, _)
\* the tags of els from position i on, up to the next tag called stop
SiblingsUntil(els, i, stop) ==
  IF i > Len(els) \/ els[i].name = stop THEN << >>
  ELSE << els[i] >> \o SiblingsUntil(els, i + 1, stop)

RECURSIVE H2Sections(_, _, _)
\* the loop over h1_content_soup.find_all("h2"), from position i on
H2Sections(content, i, h2_sections) ==
  IF i > Len(content) THEN h2_sections
  ELSE IF content[i].name = "h2"
       THEN H2Sections(content, i + 1,
              DictSet(h2_sections, Strip(content[i].text),
                      [key |-> Strip(content[i].text),
                       body |-> SiblingsUntil(content, i + 1, "h2")]))
       ELSE H2Sections(content, i + 1, h2_sections)

RECURSIVE ParseFrom(_, _, _)
\* the loop over soup.find_all("h1"), from position i on
ParseFrom(els, i, nested_data) ==
  IF i > Len(els) THEN nested_data
  ELSE IF els[i].name = "h1"
       THEN LET h1_title == Strip(els[i].text)
                h1_content == SiblingsUntil(els, i + 1, "h1")
                h2_sections == H2Sections(h1_content, 1, << >>)
                entry == IF Len(h2_sections) > 0
                         THEN [key |-> h1_title, kind |-> "dict", h2 |-> h2_sections,
                               body |-> << >>]
                         ELSE [key |-> h1_title, kind |-> "soup", h2 |-> << >>,
                               body |-> h1_content]
            IN ParseFrom(els, i + 1, DictSet(nested_data, h1_title, entry))
       ELSE ParseFrom(els, i + 1, nested_data)

parse_master_html(html_content) == ParseFrom(html_content, 1, << >>)

(***************************************************************************)
(* get_content_from_nested_structure.  final_soup.append(x) of a           *)
(* BeautifulSoup x moves the children of x into final_soup (bs4's          *)
(* Tag.insert takes the children out of a BeautifulSoup it is given and    *)
(* inserts them one by one, and inserting a tag extracts it from where it  *)
(* was): the appended fragment of the hierarchy is left without contents.  *)
(* The result carries the hierarchy as the call leaves it.                 *)
(***************************************************************************)
FallbackSoup == << Tag("p", "Content not available.") >>

\* the truth value of an entry: a dict is true when non-empty, a BeautifulSoup
\* is always true (bs4's Tag.__bool__ returns True whatever it contains)
Truthy(entry) == IF entry.kind = "dict" THEN Len(entry.h2) > 0 ELSE TRUE

\* the outer index without the modulo on the number of H1 sections
TopIndexNoWrap(num, top_keys) == (num - 1) \div TEMPLATES_PER_TYPE

\* the inner index taken from the group of the template, not from its rank
BottomIndexOfGroup(num, bottom_keys) ==
  ((num - 1) \div TEMPLATES_PER_TYPE) % Len(bottom_keys)

\* the outer index taken from the rank of the template in its group
TopIndexOfRank(num, top_keys) == ((num - 1) % TEMPLATES_PER_TYPE) % Len(top_keys)

\* top_index_calc % len(top_keys)
TopIndex(num, top_keys) == ((num - 1) \div TEMPLATES_PER_TYPE) % Len(top_keys)

\* bottom_index_calc % len(bottom_keys)
BottomIndex(num, bottom_keys) == ((num - 1) % TEMPLATES_PER_TYPE) % Len(bottom_keys)

Selected(ti, bi, soup, moved, fallback, nested) ==
  [status |-> "ok", err |-> "", top_index |-> ti, bottom_index |-> bi,
   final_soup |-> soup, moved |-> moved, fallback |-> fallback, nested |-> nested]

\* a selection that answers an error with the fallback content
Defaulted(err, nested) ==
  Selected(0, -1, << Tag("h1", "") >> \o FallbackSoup, << >>, TRUE, nested)

Raised(err, nested) ==
  [status |-> "raise", err |-> err, top_index |-> -1, bottom_index |-> -1,
   final_soup |-> << >>, moved |-> << >>, fallback |-> FALSE, nested |-> nested]

get_content_from_nested_structure(nested_dict, num) ==
  IF Len(nested_dict) = 0 THEN Raised("ValueError: nested_sections is empty", nested_dict)
  ELSE
  LET top_index == TopIndex(num, nested_dict) IN
  IF ~PyIndexOk(nested_dict, top_index) THEN Raised("IndexError", nested_dict)
  ELSE
  LET tpos == (top_index % Len(nested_dict)) + 1
      entry == nested_dict[tpos]
      h1 == << Tag("h1", entry.key) >>
  IN
  IF entry.kind = "dict" /\ Truthy(entry)
  THEN LET bottom_index == BottomIndex(num, entry.h2) IN
       IF ~PyIndexOk(entry.h2, bottom_index) THEN Raised("IndexError", nested_dict)
       ELSE LET bpos == (bottom_index % Len(entry.h2)) + 1
                sec == entry.h2[bpos]
            IN Selected(top_index, bottom_index,
                        h1 \o << Tag("h2", sec.key) >> \o sec.body, sec.body, FALSE,
                        [nested_dict EXCEPT ![tpos].h2[bpos].body = << >>])
  ELSE IF Truthy(entry)
       THEN Selected(top_index, -1, h1 \o entry.body, entry.body, FALSE,
                     [nested_dict EXCEPT ![tpos].body = << >>])
       ELSE Selected(top_index, -1, h1 \o FallbackSoup, << >>, TRUE, nested_dict)

RECURSIVE SoupStr(_)
\* str(soup)
SoupStr(soup) ==
  IF soup = << >> THEN ""
  ELSE "<" \o Head(soup).name \o ">" \o Head(soup).text \o "</" \o Head(soup).name \o ">"
         \o SoupStr(Tail(soup))

(***************************************************************************)
(* stringify_fake_datum.  A result is [ok, s]: ok is FALSE when the code   *)
(* raises (an attribute read on a value that lacks it).                    *)
(***************************************************************************)
Pad2(n) == IF n < 10 THEN "0" \o IntToStr(n) ELSE IntToStr(n)

\* str(fake_datum): __repr__ of FakeName and FakeLocation, ISO form of a date
Str(d) ==
  CASE d.kind = "name" -> d.full_name
    [] d.kind = "location" ->
         d.address \o " (" \o d.city \o ", " \o d.country \o ", " \o d.continent \o ")"
    [] d.kind = "date" -> IntToStr(d.year) \o "-" \o Pad2(d.month) \o "-" \o Pad2(d.day)
    [] d.kind = "int" -> IntToStr(d.v)
    [] d.kind = "decimal" -> IntToStr(d.units) \o "." \o Pad2(d.cents)
    [] OTHER -> d.s

Ok(s) == [ok |-> TRUE, s |-> s]

AttributeError == [ok |-> FALSE, s |-> "AttributeError"]

OpChars == "+-*/"

\* the characters of the class [a-zA-Z0-9 _-]
InNameClass(c) == IsCased(c) \/ IsDigit(c) \/ c = " " \/ c = "_" \/ c = "-"

\* the position of the last operator character of s, 0 when none
LastOp(s) ==
  LET S == {k \in 1..Len(s) : IndexIn(OpChars, Ch(s, k), 1) # 0}
  IN IF S = {} THEN 0 ELSE CHOOSE k \in S : \A m \in S : m <= k

\* the match with the operator at position p and the text operand after it
MathExprAt(type, p, operand) ==
  IF /\ p > 1
     /\ \A i \in 1..(p - 1) : InNameClass(Ch(type, i))
     /\ operand # ""
     /\ \A i \in 1..Len(operand) : IsDigit(Ch(operand, i)) \/ Ch(operand, i) = "."
  THEN [match |-> TRUE, op |-> Ch(type, p), operand |-> operand]
  ELSE [match |-> FALSE, op |-> "", operand |-> ""]

\* what follows position p of type, without the blanks \s* takes
OperandAfter(type, p) == IF p = 0 THEN "" ELSE LStrip(SubSeq(type, p + 1, Len(type)))

\* re.match(r"^([a-zA-Z0-9 _-]+)\s*([\+\-\*/])\s*([0-9\.]+)$", type): group 1 is
\* greedy and an operator character cannot occur in what follows the operator,
\* so the operator matched is the last operator character of the text
MathExprFrom(type, p) == MathExprAt(type, p, OperandAfter(type, p))

MathExpr(type) == MathExprFrom(type, LastOp(type))

RECURSIVE Pow10(_)
Pow10(k) == IF k = 0 THEN 1 ELSE 10 * Pow10(k - 1)

\* the operand as Python's eval reads it: [ok, num, den] with value num/den; ok
\* is FALSE for what is no literal (a leading zero before a nonzero integer,
\* two dots, a lone dot)
OperandAt(text, dot) ==
  IF dot = 0
  THEN IF Len(text) > 1 /\ Ch(text, 1) = "0" /\ StrToNat(text) # 0
       THEN [ok |-> FALSE, num |-> 0, den |-> 1]
       ELSE [ok |-> TRUE, num |-> StrToNat(text), den |-> 1]
  ELSE LET int == SubSeq(text, 1, dot - 1)
           frac == SubSeq(text, dot + 1, Len(text))
       IN IF IndexIn(frac, ".", 1) # 0 \/ (int = "" /\ frac = "")
          THEN [ok |-> FALSE, num |-> 0, den |-> 1]
          ELSE [ok |-> TRUE, num |-> StrToNat(int \o frac), den |-> Pow10(Len(frac))]

Operand(text) == OperandAt(text, IndexIn(text, ".", 1))

\* float(fake_datum): [ok, num, den]; ok is FALSE when float() raises
Float(d) ==
  CASE d.kind = "int" -> [ok |-> TRUE, num |-> d.v, den |-> 1]
    [] d.kind = "decimal" -> [ok |-> TRUE, num |-> d.units * 100 + d.cents, den |-> 100]
    [] OTHER -> [ok |-> FALSE, num |-> 0, den |-> 1]

RECURSIVE FracDigits(_, _, _)
\* up to k digits of the decimal expansion of rem/den, rem < den
FracDigits(rem, den, k) ==
  IF rem = 0 \/ k = 0 THEN ""
  ELSE Ch(Digits, ((rem * 10) \div den) + 1) \o FracDigits((rem * 10) % den, den, k - 1)

\* str(result) of a float that is not whole: its decimal expansion (exact for
\* the short terminating expansions of the model's values), for num, den > 0
FloatStr(num, den) ==
  IntToStr(num \div den) \o "." \o FracDigits(num % den, den, 6)

\* eval(f"{value} {op} {operand}") and the rendering of its result; ok is FALSE
\* when the try block raises
Eval(value, op, k) ==
  LET num == CASE op = "+" -> value.num * k.den + k.num * value.den
               [] op = "-" -> value.num * k.den - k.num * value.den
               [] op = "*" -> value.num * k.num
               [] OTHER -> value.num * k.den
      den == CASE op = "/" -> value.den * k.num
               [] OTHER -> value.den * k.den
  IN IF ~value.ok \/ ~k.ok \/ den = 0 THEN [ok |-> FALSE, s |-> ""]
     ELSE IF num % den = 0 THEN [ok |-> TRUE, s |-> IntToStr(num \div den)]
     ELSE IF num < 0 THEN [ok |-> TRUE, s |-> "-" \o FloatStr(0 - num, den)]
     ELSE [ok |-> TRUE, s |-> FloatStr(num, den)]

Suffixes == << "th", "st", "nd", "rd" >>

\* ordinal(n): "tsnrhtdd"[k::4] with k = (n//10%10 != 1) * (n%10 < 4) * n % 10
Ordinal(n) ==
  LET k == IF ((n \div 10) % 10) # 1 /\ (n % 10) < 4 THEN n % 10 ELSE 0
  IN IntToStr(n) \o Suffixes[k + 1]

Months ==
  << "January", "February", "March", "April", "May", "June", "July", "August",
     "September", "October", "November", "December" >>

\* the result of the try block, or str(fake_datum) when it raised
ResultOr(result, fake_datum) == IF result.ok THEN Ok(result.s) ELSE Ok(Str(fake_datum))

\* the numeric branch, math_expr being what re.match returned
Numeric(fake_datum, math_expr) ==
  IF math_expr.match
  THEN ResultOr(Eval(Float(fake_datum), math_expr.op, Operand(math_expr.operand)),
                fake_datum)
  ELSE Ok(Str(fake_datum))

stringify_fake_datum(fake_datum, type) ==
  IF StartsWith(type, "location")
  THEN IF fake_datum.kind # "location" THEN AttributeError
       ELSE IF Contains(type, "city") THEN Ok(fake_datum.city)
       ELSE IF Contains(type, "country") THEN Ok(fake_datum.country)
       ELSE IF Contains(type, "continent") THEN Ok(fake_datum.continent)
       ELSE Ok(fake_datum.address)
  ELSE IF StartsWith(type, "name")
  THEN IF fake_datum.kind # "name" THEN AttributeError
       ELSE IF Contains(type, "last") THEN Ok(fake_datum.last_name)
       ELSE IF Contains(type, "first") THEN Ok(fake_datum.first_name)
       ELSE Ok(fake_datum.full_name)
  ELSE IF StartsWith(type, "number") \/ StartsWith(type, "count")
            \/ StartsWith(type, "dollars") \/ StartsWith(type, "price")
  THEN Numeric(fake_datum, MathExpr(type))
  ELSE IF StartsWith(type, "date")
  THEN IF fake_datum.kind \in {"str", "int"} THEN Ok(Str(fake_datum))
       ELSE IF fake_datum.kind # "date" THEN AttributeError
       ELSE Ok(Ordinal(fake_datum.day) \o " of " \o Months[fake_datum.month] \o " "
                 \o IntToStr(fake_datum.year))
  ELSE IF StartsWith(type, "year")
  THEN IF fake_datum.kind \in {"str", "int"} THEN Ok(Str(fake_datum))
       ELSE IF fake_datum.kind # "date" THEN AttributeError
       ELSE Ok(IntToStr(fake_datum.year))
  ELSE Ok(Str(fake_datum))

(***************************************************************************)
(* generate_complete_template: the helpers of its body.                    *)
(***************************************************************************)
\* re.sub(r"\s+", " ", field.strip().lower())
normalize_field(field) == CollapseSpaces(Lower(Strip(field)))

RECURSIVE FieldMapFrom(_, _, _)
FieldMapFrom(field_names, i, m) ==
  IF i > Len(field_names) THEN m
  ELSE FieldMapFrom(field_names, i + 1,
         DictSet(m, normalize_field(field_names[i]),
                 [key |-> normalize_field(field_names[i]), idx |-> i - 1]))

\* field_map: normalized field name -> index in fake_tuple; a name declared
\* twice keeps the place of its first declaration and the index of its last
field_map(field_names) == FieldMapFrom(field_names, 1, << >>)

\* field_map of each type
FieldMaps == [t \in 1..Len(FAKE_DATA_TYPES) |-> field_map(FAKE_DATA_TYPES[t].fields)]

RECURSIVE FirstKey(_, _, _)
\* the loop `for field_key in field_map`: the position in fm of the first key
\* that equals the normalized placeholder or is a prefix of it, 0 when none
FirstKey(fm, norm_placeholder, i) ==
  IF i > Len(fm) THEN 0
  ELSE IF norm_placeholder = fm[i].key \/ StartsWith(norm_placeholder, fm[i].key) THEN i
  ELSE FirstKey(fm, norm_placeholder, i + 1)

WithIdx(r, idx) == [ok |-> r.ok, s |-> r.s, idx |-> idx]

\* the value of the field at position k of fm, stringified under the name of
\* the placeholder as written; k = 0: no field matches
Replacement(placeholder, fm, fake_tuple, k) ==
  IF k = 0 THEN [ok |-> TRUE, s |-> "{" \o placeholder \o "}", idx |-> -1]
  ELSE IF ~PyIndexOk(fake_tuple, fm[k].idx)
       THEN [ok |-> FALSE, s |-> "IndexError", idx |-> fm[k].idx]
  ELSE WithIdx(stringify_fake_datum(PyIndex(fake_tuple, fm[k].idx), placeholder),
               fm[k].idx)

\* replace_placeholder for the text between the braces: [ok, s, idx]; idx is
\* the index used in fake_tuple, -1 when no field matches and the placeholder
\* is returned as written; ok is FALSE when the call raises
replace_placeholder(placeholder, fm, fake_tuple) ==
  Replacement(placeholder, fm, fake_tuple, FirstKey(fm, normalize_field(placeholder), 1))

\* the text before a match, its replacement r and the result rest of what
\* follows the match, put together
Joined(before, ph, r, rest) ==
  IF ~r.ok THEN [ok |-> FALSE, s |-> r.s, log |-> << >>]
  ELSE [ok |-> rest.ok,
        s |-> IF rest.ok THEN before \o r.s \o rest.s ELSE rest.s,
        log |-> << [ph |-> ph, rep |-> r.s, idx |-> r.idx] >> \o rest.log]

\* the result rest with text put before it
Prefixed(before, rest) == [rest EXCEPT !.s = before \o @]

RECURSIVE ReSubFrom(_, _, _, _)
RECURSIVE ReSubAt(_, _, _, _, _, _)
\* re.sub(r"\{([^}]+)\}", replace_placeholder, body) from position i on:
\* [ok, s, log], log the sequence of [ph, rep, idx], one per match
ReSubFrom(body, i, fm, fake_tuple) ==
  ReSubAt(body, i, fm, fake_tuple, IndexIn(body, "{", i),
          IndexIn(body, "}", IndexIn(body, "{", i) + 1))

\* the same, the next opening brace being at b (0: none) and the next closing
\* brace after it at j (0: none)
ReSubAt(body, i, fm, fake_tuple, b, j) ==
  IF b = 0 \/ j = 0 THEN [ok |-> TRUE, s |-> SubSeq(body, i, Len(body)), log |-> << >>]
  ELSE IF j = b + 1
       THEN Prefixed(SubSeq(body, i, b), ReSubFrom(body, b + 1, fm, fake_tuple))
  ELSE Joined(SubSeq(body, i, b - 1), SubSeq(body, b + 1, j - 1),
              replace_placeholder(SubSeq(body, b + 1, j - 1), fm, fake_tuple),
              ReSubFrom(body, j + 1, fm, fake_tuple))

ReSub(body, fm, fake_tuple) == ReSubFrom(body, 1, fm, fake_tuple)

PronounKeys == << "he", "him", "his", "himself" >>

\* pronoun_sets in the order of ["male", "female", "they"]; each set in the
\* order of PronounKeys
PronounSets ==
  << << "he", "him", "his", "himself" >>,
     << "she", "her", "her", "herself" >>,
     << "they", "them", "their", "themself" >> >>

RECURSIVE KeyIndex(_, _)
KeyIndex(base, i) ==
  IF i > Len(PronounKeys) THEN 0
  ELSE IF PronounKeys[i] = base THEN i
  ELSE KeyIndex(base, i + 1)

\* the pronoun in the case style of pronoun_type
Cased(pronoun_type, pronoun) ==
  IF IsLower(pronoun_type) THEN pronoun
  ELSE IF IsTitle(pronoun_type) THEN Capitalize(pronoun)
  ELSE IF IsUpper(pronoun_type) THEN Upper(pronoun)
  ELSE pronoun

\* pronoun_sets[choice].get(base, base), k being the place of base among the
\* keys (0: not a key)
Lookup(choice, base, k) == IF k = 0 THEN base ELSE PronounSets[choice + 1][k]

\* a helper that picks the set by the parity of the seed
PronounsBySeedParity(pronoun_type, seed) ==
  Cased(pronoun_type,
        Lookup(seed % 2, Lower(pronoun_type), KeyIndex(Lower(pronoun_type), 1)))

pronouns_helper(pronoun_type, seed) ==
  Cased(pronoun_type,
        Lookup(seed % 3, Lower(pronoun_type), KeyIndex(Lower(pronoun_type), 1)))

\* [key, key.capitalize(), key.upper()]
Variants(key) == << key, Capitalize(key), Upper(key) >>

\* html_content.replace("{" + variant + "}", pronouns_helper(variant, seed))
ReplaceVariant(html_content, variant, seed) ==
  Replace(html_content, "{" \o variant \o "}", pronouns_helper(variant, seed))

RECURSIVE PronounLoop(_, _, _, _)
\* the two nested loops over pronoun_keys and the variants of a key, from
\* key number k and variant number v on
PronounLoop(html_content, k, v, seed) ==
  IF k > Len(PronounKeys) THEN html_content
  ELSE IF v > 3 THEN PronounLoop(html_content, k + 1, 1, seed)
  ELSE PronounLoop(ReplaceVariant(html_content, Variants(PronounKeys[k])[v], seed),
                   k, v + 1, seed)

RECURSIVE Indent(_)
Indent(depth) == IF depth <= 0 THEN "" ELSE " " \o Indent(depth - 1)

\* a line of the output: the text at the depth of its nesting
Line(depth, text) == IF text = "" THEN "" ELSE Indent(depth) \o text \o "\n"

RECURSIVE PrettifyFrom(_, _, _)
RECURSIVE PrettifyTag(_, _, _, _)
RECURSIVE PrettifyText(_, _, _, _)
\* BeautifulSoup(html, "html.parser").prettify(): every tag and every text on
\* a line of its own, indented by one space per level of nesting
PrettifyFrom(html, i, depth) ==
  IF i > Len(html) THEN ""
  ELSE IF Ch(html, i) = "<" /\ IndexIn(html, ">", i) # 0
       THEN PrettifyTag(html, i, IndexIn(html, ">", i),
                        IF Ch(html, i + 1) = "/" THEN depth - 1 ELSE depth)
       ELSE PrettifyText(html, i, IndexIn(html, "<", i + 1), depth)

\* the tag from i to j, written at depth d: a closing tag one level up, an
\* opening tag followed by its contents one level down
PrettifyTag(html, i, j, d) ==
  Line(d, SubSeq(html, i, j))
    \o PrettifyFrom(html, j + 1, IF Ch(html, i + 1) = "/" THEN d ELSE d + 1)

\* the text from i up to the next tag at n (0: none)
PrettifyText(html, i, n, depth) ==
  IF n = 0 THEN Line(depth, Strip(SubSeq(html, i, Len(html))))
  ELSE Line(depth, Strip(SubSeq(html, i, n - 1))) \o PrettifyFrom(html, n, depth)

Prettify(html) == PrettifyFrom(html, 1, 0)

\* the page shell: head with the title and the style sheet, then the container
\* with soup.prettify() in it
wrap_soup_in_homepage(html, title) ==
  "<!DOCTYPE html><html><head><title>" \o title \o "</title>"
    \o "<style>body { margin: 0; } h1 { color: #2c3e50; }</style></head>"
    \o "<body><div class=\"container\">\n" \o Prettify(html) \o "</div></body></html>"

(***************************************************************************)
(* Bounds of the model.                                                    *)
(***************************************************************************)
\* seeds are 1..MaxSeed, standing for [1, 2^31 - 1]; 0 asks for a fresh one
MaxSeed == 3

\* the largest number a direct call of the section selector is given
MaxNum == 17

\* master documents hold up to MaxSections sections with a body: outer H1
\* sections times the inner H2 sections of each (one body when it has none)
MaxSections == 4

\* the number of callers (request threads) that hold a call at a time
MaxThreads == 2

\* preemptions (a switch away from a call in progress) in a concurrent run
MaxSwitches == 1

Seeds == 0..MaxSeed

FreshSeeds == 1..MaxSeed

TemplateNumbers == 0..(TOTAL_TEMPLATES + 1)

Threads == 1..MaxThreads

\* the clock advances MaxTicks times
MaxTicks == 3

\* the top-level tags of a master document read by the parser alone
MaxTags == 5

(***************************************************************************)
(* The master documents the model starts from.                             *)
(***************************************************************************)
Bodies ==
  << "{name}: {employee count + 5}, {number * 2}; {he} {Him}.",
     "{price number 1 - 3}, {number + 5}; {HIS} {himself}.",
     "{He} {HIM} {his} of {name (last)}, {country 1}, {year}.",
     "{dollars * 2} {location (city)}; {Himself} {HIMSELF} {date}." >>

Body(k) == Bodies[(k % Len(Bodies)) + 1]

RECURSIVE InnerTags(_, _, _)
\* the H2 sections j..inner of outer section o
InnerTags(o, j, inner) ==
  IF j > inner THEN << >>
  ELSE << Tag("h2", "S" \o IntToStr(o) \o IntToStr(j)),
          Tag("p", Body((o - 1) * inner + (j - 1))) >>
         \o InnerTags(o, j + 1, inner)

RECURSIVE OuterTags(_, _, _)
\* the H1 sections o..outer, each with inner H2 sections, or with direct
\* content when inner = 0
OuterTags(o, outer, inner) ==
  IF o > outer THEN << >>
  ELSE << Tag("h1", "T" \o IntToStr(o)) >>
         \o (IF inner = 0 THEN << Tag("p", Body(o - 1)) >> ELSE InnerTags(o, 1, inner))
         \o OuterTags(o + 1, outer, inner)

\* a document whose second H1 is followed by no content
DocBare == << Tag("h1", "Solo"), Tag("p", Body(0)), Tag("h1", "Bare") >>

\* a document without any H1
DocEmpty == << Tag("p", "nothing here") >>

Shapes ==
  {sh \in (1..MaxSections) \X (0..MaxSections) :
     sh[1] * (IF sh[2] = 0 THEN 1 ELSE sh[2]) <= MaxSections}

Docs == {OuterTags(1, sh[1], sh[2]) : sh \in Shapes} \cup {DocBare, DocEmpty}

(***************************************************************************)
(* State.  calls[c] is the call caller c has in progress or has just been  *)
(* returned: op is the function called, pc the place the call has reached. *)
(***************************************************************************)
NoSel ==
  [status |-> "none", err |-> "", top_index |-> -1, bottom_index |-> -1,
   final_soup |-> << >>, moved |-> << >>, fallback |-> FALSE]

IdleCall ==
  [op |-> "none", pc |-> "idle", template_number |-> 0, req_seed |-> 0, seed |-> 0,
   type_index |-> -1, fi |-> 0, result |-> << >>, sel |-> NoSel,
   body |-> "", log |-> << >>, subst |-> "", html_content |-> "", out |-> "", err |-> ""]

NoCache == [present |-> FALSE, template_id |-> 0, seed |-> 0, timestamp |-> 0]

BotNames == {"GPTBot"}

IdleBot ==
  [pc |-> "idle", bot_name |-> "", template_id |-> 0, seed |-> 0, err |-> ""]

\* the startup of __main__ on one of the documents D: the hierarchy parsed
\* once, nothing drawn and no request received yet
InitRender(D) ==
  /\ doc \in D
  /\ nested_sections = parse_master_html(doc)
  /\ rng = FakerSeed(0)
  /\ calls = [c \in Threads |-> IdleCall]
  /\ sched = [last |-> 0, switches |-> 0]

\* an empty cache, no lookup in progress
InitCache ==
  /\ BOT_CACHE = [b \in BotNames |-> NoCache]
  /\ now = 0
  /\ bots = [b \in Threads |-> IdleBot]

Init ==
  /\ InitRender(Docs)
  /\ InitCache
  /\ bot_visits = << >>

botvars == <<BOT_CACHE, bot_visits, now, bots>>

(***************************************************************************)
(* generate_complete_template(template_number, nested_sections, seed), in  *)
(* the steps another thread can come between.                              *)
(***************************************************************************)
Raise(call, err) == [call EXCEPT !.pc = "raised", !.err = err]

\* a seed that is drawn afresh whatever the caller passed
SeedAlwaysFresh(seed, fresh) == fresh

\* if seed == 0: seed = random.randint(1, 2**31 - 1); fresh is what randint
\* returns when it is called
SeedOf(seed, fresh) == IF seed = 0 THEN fresh ELSE seed

\* the number of calls of random.randint a call with that seed argument makes
Randints(seed) == IF seed = 0 THEN 1 ELSE 0

\* from the entry to Faker.seed(seed) in generate_fake_data_for_type: the
\* fresh seed drawn from the random module for seed 0, the checks of the
\* template number and of the type index, the reseeding of the shared
\* generator and the lookup of the type
Begin(c, template_number, seed, fresh) ==
  /\ calls[c].pc = "idle"
  /\ LET s == SeedOf(seed, fresh)
         type_index == (template_number - 1) \div TEMPLATES_PER_TYPE
         call == [IdleCall EXCEPT !.op = "render", !.template_number = template_number,
                                  !.req_seed = seed, !.seed = s]
     IN IF template_number < 1 \/ template_number > TOTAL_TEMPLATES
        THEN /\ calls' = [calls EXCEPT ![c] = Raise(call, "ValueError: invalid template number")]
             /\ rng' = rng
        ELSE IF type_index >= Len(FAKE_DATA_TYPES)
        THEN /\ calls' = [calls EXCEPT ![c] = Raise(call, "ValueError: exceeds available types")]
             /\ rng' = rng
        ELSE /\ rng' = FakerSeed(s)
             /\ calls' = [calls EXCEPT ![c] =
                  IF PyIndexOk(FAKE_DATA_TYPES, type_index)
                  THEN [call EXCEPT !.pc = "draw", !.type_index = type_index, !.fi = 1]
                  ELSE Raise([call EXCEPT !.type_index = type_index], "IndexError")]
  /\ UNCHANGED <<doc, nested_sections, botvars>>

\* a direct call generate_fake_data_for_type(type_index, seed), from the entry
\* to the lookup of the type: the fresh seed for seed 0, Faker.seed, then
\* FAKE_DATA_TYPES[type_index], which raises IndexError outside
\* -len..len-1 and counts from the end for a negative index
GenerateCall(c, type_index, seed, fresh) ==
  /\ calls[c].pc = "idle"
  /\ LET call == [IdleCall EXCEPT !.op = "generate", !.req_seed = seed,
                                  !.seed = SeedOf(seed, fresh),
                                  !.type_index = type_index]
     IN /\ rng' = FakerSeed(call.seed)
        /\ calls' = [calls EXCEPT ![c] =
             IF PyIndexOk(FAKE_DATA_TYPES, type_index)
             THEN [call EXCEPT !.pc = "draw", !.fi = 1]
             ELSE Raise(call, "IndexError")]
  /\ UNCHANGED <<doc, nested_sections, botvars>>

\* one round of the loop over the fields, for a call at field fi with the
\* generator in state r: the value of the field is drawn and appended to result
DrawStep(call, r) ==
  LET rules == PyIndex(RuleTable, call.type_index)
      rule == rules[call.fi]
  IN [call |-> [call EXCEPT !.result = Append(@, DrawValue(rule, r)),
                            !.fi = @ + 1,
                            !.pc = IF call.fi < Len(rules) THEN "draw"
                                   ELSE IF call.op = "generate" THEN "done"
                                   ELSE "select"],
      rng |-> Advance(r, DrawCount(rule))]

RECURSIVE DrawLoop(_, _)
\* the rounds of the loop up to its end, nothing coming between them
DrawLoop(call, r) ==
  IF call.pc # "draw" THEN [call |-> call, rng |-> r]
  ELSE LET one == DrawStep(call, r) IN DrawLoop(one.call, one.rng)

\* one round of the loop, after which another thread may run
Draw(c) ==
  /\ calls[c].pc = "draw"
  /\ LET one == DrawStep(calls[c], rng)
     IN /\ calls' = [calls EXCEPT ![c] = one.call]
        /\ rng' = one.rng
  /\ UNCHANGED <<doc, nested_sections, botvars>>

\* the whole loop, in a run where no other thread touches the generator
DrawAll(c) ==
  /\ calls[c].pc = "draw"
  /\ LET all == DrawLoop(calls[c], rng)
     IN /\ calls' = [calls EXCEPT ![c] = all.call]
        /\ rng' = all.rng
  /\ UNCHANGED <<doc, nested_sections, botvars>>

SelOf(r) ==
  [status |-> r.status, err |-> r.err, top_index |-> r.top_index,
   bottom_index |-> r.bottom_index, final_soup |-> r.final_soup, moved |-> r.moved,
   fallback |-> r.fallback]

\* final_soup = get_content_from_nested_structure(templates, template_number)
Select(c) ==
  /\ calls[c].pc = "select"
  /\ LET r == get_content_from_nested_structure(nested_sections, calls[c].template_number)
     IN /\ nested_sections' = r.nested
        /\ calls' = [calls EXCEPT ![c] =
             IF r.status = "raise" THEN Raise([@ EXCEPT !.sel = SelOf(r)], r.err)
             ELSE [@ EXCEPT !.pc = "subst", !.sel = SelOf(r)]]
  /\ UNCHANGED <<doc, rng, botvars>>

\* the call once the pronouns are resolved in html_content, returning the
\* page that wraps it
Wrapped(call, html_content) ==
  [call EXCEPT !.pc = "done", !.html_content = html_content,
               !.out = wrap_soup_in_homepage(html_content, "Template")]

\* the call once re.sub has returned sub for the body: the exception of a
\* replacement goes up to the caller, otherwise the pronoun loops follow
Substituted(call, body, sub) ==
  IF ~sub.ok THEN Raise([call EXCEPT !.body = body], sub.s)
  ELSE Wrapped([call EXCEPT !.body = body, !.log = sub.log, !.subst = sub.s],
               PronounLoop(sub.s, 1, 1, call.seed))

\* str(final_soup), the substitution of the placeholders, the pronouns and
\* the page shell
Finish(c) ==
  /\ calls[c].pc = "subst"
  /\ calls' = [calls EXCEPT ![c] =
       Substituted(@, SoupStr(@.sel.final_soup),
                   ReSub(SoupStr(@.sel.final_soup), PyIndex(FieldMaps, @.type_index),
                         @.result))]
  /\ UNCHANGED <<doc, nested_sections, rng, botvars>>

\* a direct call get_content_from_nested_structure(nested_sections, num)
SelectCall(c, num) ==
  /\ calls[c].pc = "idle"
  /\ LET r == get_content_from_nested_structure(nested_sections, num)
         call == [IdleCall EXCEPT !.op = "select", !.template_number = num, !.sel = SelOf(r)]
     IN /\ nested_sections' = r.nested
        /\ calls' = [calls EXCEPT ![c] =
             IF r.status = "raise" THEN Raise(call, r.err)
             ELSE [call EXCEPT !.pc = "done", !.body = SoupStr(r.final_soup)]]
  /\ UNCHANGED <<doc, rng, botvars>>

\* the caller takes the result, or the exception, and is ready to call again
Return(c) ==
  /\ calls[c].pc \in {"done", "raised"}
  /\ calls' = [calls EXCEPT ![c] = IdleCall]
  /\ UNCHANGED <<doc, nested_sections, rng, botvars>>

(***************************************************************************)
(* get_or_create_bot_template_id(bot_name) of thread b, in the steps       *)
(* between which another thread can run: the test of BOT_CACHE, the select *)
(* on bot_visits, the insert or the update, the write of BOT_CACHE.  A     *)
(* seed of 0 in a row stands for a missing seed.                           *)
(***************************************************************************)
BotTemplates == {1, TOTAL_TEMPLATES}

\* the rows of bot_visits with that bot_name, in the order of the table
RowsOf(bot_name) == SelectSeq(bot_visits, LAMBDA row : row.bot_name = bot_name)

\* the test of the cache: a fresh entry is returned, otherwise the database
\* is asked
BotLookup(b, bot_name) ==
  /\ bots[b].pc = "idle"
  /\ LET cache == BOT_CACHE[bot_name] IN
     bots' = [bots EXCEPT ![b] =
       IF cache.present /\ (now - cache.timestamp) < CACHE_DURATION_SECONDS
       THEN [IdleBot EXCEPT !.pc = "done", !.bot_name = bot_name,
                            !.template_id = cache.template_id, !.seed = cache.seed]
       ELSE [IdleBot EXCEPT !.pc = "query", !.bot_name = bot_name]]
  /\ UNCHANGED <<doc, nested_sections, rng, calls, sched, BOT_CACHE, bot_visits, now>>

\* the select and what follows it up to the next request to the database: the
\* first row found is taken, with a new seed to write back when it has none;
\* without a row, create_new_bot_entry draws a template and a seed to insert
BotQuery(b, new_template_id, new_seed) ==
  /\ bots[b].pc = "query"
  /\ LET data == RowsOf(bots[b].bot_name) IN
     bots' = [bots EXCEPT ![b] =
       IF Len(data) > 0
       THEN IF data[1].seed = 0
            THEN [@ EXCEPT !.pc = "update", !.template_id = data[1].template_id,
                           !.seed = new_seed]
            ELSE [@ EXCEPT !.pc = "store", !.template_id = data[1].template_id,
                           !.seed = data[1].seed]
       ELSE [@ EXCEPT !.pc = "insert", !.template_id = new_template_id,
                      !.seed = new_seed]]
  /\ UNCHANGED <<doc, nested_sections, rng, calls, sched, BOT_CACHE, bot_visits, now>>

\* supabase.table("bot_visits").update({"seed": seed}).eq("bot_name", bot_name)
BotUpdate(b) ==
  /\ bots[b].pc = "update"
  /\ bot_visits' = [i \in 1..Len(bot_visits) |->
                      IF bot_visits[i].bot_name = bots[b].bot_name
                      THEN [bot_visits[i] EXCEPT !.seed = bots[b].seed]
                      ELSE bot_visits[i]]
  /\ bots' = [bots EXCEPT ![b].pc = "store"]
  /\ UNCHANGED <<doc, nested_sections, rng, calls, sched, BOT_CACHE, now>>

\* the insert of create_new_bot_entry answered with the new row
BotInsert(b) ==
  /\ bots[b].pc = "insert"
  /\ bot_visits' = Append(bot_visits, [bot_name |-> bots[b].bot_name,
                                       template_id |-> bots[b].template_id,
                                       seed |-> bots[b].seed])
  /\ bots' = [bots EXCEPT ![b].pc = "store"]
  /\ UNCHANGED <<doc, nested_sections, rng, calls, sched, BOT_CACHE, now>>

\* the insert answered without data, as a table that refuses a second row for
\* a bot_name does: create_new_bot_entry raises
BotInsertFails(b) ==
  /\ bots[b].pc = "insert"
  /\ Len(RowsOf(bots[b].bot_name)) > 0
  /\ bots' = [bots EXCEPT ![b] = [@ EXCEPT !.pc = "raised", !.template_id = 0, !.seed = 0,
                                           !.err = "Exception: failed to save new bot"]]
  /\ UNCHANGED <<doc, nested_sections, rng, calls, sched, BOT_CACHE, bot_visits, now>>

\* BOT_CACHE[bot_name] = {template_id, seed, time.time()} and the return
BotStore(b) ==
  /\ bots[b].pc = "store"
  /\ BOT_CACHE' = [BOT_CACHE EXCEPT ![bots[b].bot_name] =
                     [present |-> TRUE, template_id |-> bots[b].template_id,
                      seed |-> bots[b].seed, timestamp |-> now]]
  /\ bots' = [bots EXCEPT ![b].pc = "done"]
  /\ UNCHANGED <<doc, nested_sections, rng, calls, sched, bot_visits, now>>

\* serve_content takes the pair, or the exception
BotReturn(b) ==
  /\ bots[b].pc \in {"done", "raised"}
  /\ bots' = [bots EXCEPT ![b] = IdleBot]
  /\ UNCHANGED <<doc, nested_sections, rng, calls, sched, BOT_CACHE, bot_visits, now>>

\* time passes, half the life of a cache entry at a time
Tick ==
  /\ now < MaxTicks * (CACHE_DURATION_SECONDS \div 2)
  /\ now' = now + (CACHE_DURATION_SECONDS \div 2)
  /\ UNCHANGED <<doc, nested_sections, rng, calls, sched, BOT_CACHE, bot_visits, bots>>

(***************************************************************************)
(* Spec: one caller, one call after the other.                             *)
(***************************************************************************)
Next ==
  \/ \E t \in TemplateNumbers, s \in Seeds, f \in FreshSeeds :
       Begin(1, t, s, f) /\ UNCHANGED sched
  \/ DrawAll(1) /\ UNCHANGED sched
  \/ Select(1) /\ UNCHANGED sched
  \/ Finish(1) /\ UNCHANGED sched
  \/ \E n \in 1..MaxNum : SelectCall(1, n) /\ UNCHANGED sched
  \/ Return(1) /\ UNCHANGED sched

Spec == Init /\ [][Next]_vars

(***************************************************************************)
(* SpecTwice: two callers that keep what their last render returned; one   *)
(* call at a time, with seeds other than 0.                                *)
(***************************************************************************)
TwiceTemplates == {1, TOTAL_TEMPLATES}

TwiceSeeds == {1, 2}

InProgress(c) == calls[c].pc \notin {"idle", "done", "raised"}

\* no call of another caller is in progress
Alone(c) == \A d \in Threads \ {c} : ~InProgress(d)

NextTwice ==
  \E c \in Threads :
    \/ \E t \in TwiceTemplates, s \in TwiceSeeds :
         Alone(c) /\ Begin(c, t, s, s) /\ UNCHANGED sched
    \/ Alone(c) /\ DrawAll(c) /\ UNCHANGED sched
    \/ Alone(c) /\ Select(c) /\ UNCHANGED sched
    \/ Alone(c) /\ Finish(c) /\ UNCHANGED sched
    \/ Alone(c) /\ Return(c) /\ UNCHANGED sched

SpecTwice == Init /\ [][NextTwice]_vars

(***************************************************************************)
(* SpecConc: the threads of the Flask server (app.run serves each request  *)
(* in a thread of its own) render at the same time.  A thread is preempted *)
(* when another takes a step while it is in the middle of a call; a run    *)
(* has at most MaxSwitches preemptions.                                    *)
(***************************************************************************)
ConcDocs == {OuterTags(1, 1, 1), OuterTags(1, 1, 2)}

ConcTemplates == {1, 2}

ConcSeeds == {1, 2}

Preempts(c) == sched.last # c /\ \E d \in Threads \ {c} : InProgress(d)

\* thread c is scheduled for a step
Run(c) ==
  /\ Preempts(c) => sched.switches < MaxSwitches
  /\ sched' = [last |-> c,
               switches |-> IF Preempts(c) THEN sched.switches + 1 ELSE sched.switches]

InitConc ==
  /\ InitRender(ConcDocs)
  /\ InitCache
  /\ bot_visits = << >>

NextConc ==
  \E c \in Threads :
    \/ \E t \in ConcTemplates, s \in ConcSeeds : Run(c) /\ Begin(c, t, s, s)
    \/ Run(c) /\ Draw(c)
    \/ Run(c) /\ Select(c)
    \/ Run(c) /\ Finish(c)
    \/ Run(c) /\ Return(c)

SpecConc == InitConc /\ [][NextConc]_vars

(***************************************************************************)
(* SpecBot: the threads of the server look bots up at the same time.  The  *)
(* table bot_visits starts empty or with the row of an earlier version,    *)
(* which has no seed.                                                      *)
(***************************************************************************)
BotDocs == {OuterTags(1, 1, 1)}

OldTables ==
  {<< >>} \cup {<< [bot_name |-> n, template_id |-> t, seed |-> 0] >> :
                  n \in BotNames, t \in BotTemplates}

InitBot ==
  /\ InitRender(BotDocs)
  /\ InitCache
  /\ bot_visits \in OldTables

NextBot ==
  \/ \E b \in Threads :
       \/ \E n \in BotNames : BotLookup(b, n)
       \/ \E t \in BotTemplates, s \in FreshSeeds : BotQuery(b, t, s)
       \/ BotUpdate(b)
       \/ BotInsert(b)
       \/ BotInsertFails(b)
       \/ BotStore(b)
       \/ BotReturn(b)
  \/ Tick

SpecBot == InitBot /\ [][NextBot]_vars

(***************************************************************************)
(* SpecGen: direct calls of generate_fake_data_for_type by two callers     *)
(* that keep what their last call returned; one call at a time.            *)
(***************************************************************************)
\* the type indexes of the catalog, and on either side those that Python
\* counts from the end and those outside the sequence
TypeIndexes == (0 - Len(FAKE_DATA_TYPES) - 1)..(Len(FAKE_DATA_TYPES) + 1)

\* the two callers
GenCallers == {1, 2}

\* the startup on a document of one section, nothing in the table
InitGen ==
  /\ InitRender(BotDocs)
  /\ InitCache
  /\ bot_visits = << >>

NextGen ==
  \E c \in GenCallers :
    \/ \E ti \in TypeIndexes, s \in Seeds, f \in FreshSeeds :
         Alone(c) /\ GenerateCall(c, ti, s, f) /\ UNCHANGED sched
    \/ Alone(c) /\ DrawAll(c) /\ UNCHANGED sched
    \/ Alone(c) /\ Return(c) /\ UNCHANGED sched

SpecGen == InitGen /\ [][NextGen]_vars

(***************************************************************************)
(* SpecText: renders, one at a time, of master documents of one section    *)
(* whose body holds placeholders with arithmetic suffixes, in several      *)
(* letter cases, for fields declared twice and for no field.               *)
(***************************************************************************)
TextBodies ==
  << "{number ** 5} {number / 0} {number + 1.2.3} {dollars % 2} {number -- 5} {number + 5}",
     "{country 1 + 2} {country 1 x 2} {name + 1} {date 1 / 0} {year * 2}",
     "{location (city)} {Location (City)} {name (last)} {Name (last)}",
     "{product} {product 1} {product 2} {founder} {nothing} {Number}",
     "{hIM} {hE} {him} {Him} {HIM}" >>

TextDocs == {<< Tag("h1", "T1"), Tag("p", TextBodies[k]) >> : k \in 1..Len(TextBodies)}

InitText ==
  /\ InitRender(TextDocs)
  /\ InitCache
  /\ bot_visits = << >>

NextText ==
  \/ \E t \in 1..TOTAL_TEMPLATES, s \in Seeds, f \in FreshSeeds :
       Begin(1, t, s, f) /\ UNCHANGED sched
  \/ DrawAll(1) /\ UNCHANGED sched
  \/ Select(1) /\ UNCHANGED sched
  \/ Finish(1) /\ UNCHANGED sched
  \/ Return(1) /\ UNCHANGED sched

SpecText == InitText /\ [][NextText]_vars

(***************************************************************************)
(* SpecParse: the startup of __main__ on any master document of up to      *)
(* MaxTags top-level tags: nested_sections is {} until parse_master_html   *)
(* has returned.                                                           *)
(***************************************************************************)
\* primary headings, secondary headings and a content element
ParseTags ==
  {Tag("h1", "A"), Tag("h1", " B "), Tag("h2", "X"), Tag("h2", "Y"), Tag("p", "c")}

ParseDocs == UNION {[1..n -> ParseTags] : n \in 0..MaxTags}

InitParse ==
  /\ doc \in ParseDocs
  /\ nested_sections = << >>
  /\ rng = FakerSeed(0)
  /\ calls = [c \in Threads |-> IdleCall]
  /\ sched = [last |-> 0, switches |-> 0]
  /\ InitCache
  /\ bot_visits = << >>

\* nested_sections = parse_master_html(html_content), html_content being the
\* text of FakeData.html
ParseCall(c) ==
  /\ calls[c].pc = "idle"
  /\ nested_sections' = parse_master_html(doc)
  /\ calls' = [calls EXCEPT ![c] = [IdleCall EXCEPT !.op = "parse", !.pc = "done"]]
  /\ UNCHANGED <<doc, rng, botvars>>

NextParse ==
  \/ ParseCall(1) /\ UNCHANGED sched
  \/ Return(1) /\ UNCHANGED sched

SpecParse == InitParse /\ [][NextParse]_vars

(***************************************************************************)
(* SpecFull: one render by each of two callers, one after the other, on a  *)
(* master document of NUM_TEMPLATE_TYPES outer sections of                 *)
(* TEMPLATES_PER_TYPE inner sections each.                                 *)
(***************************************************************************)
FullDoc == OuterTags(1, NUM_TEMPLATE_TYPES, TEMPLATES_PER_TYPE)

InitFull ==
  /\ InitRender({FullDoc})
  /\ InitCache
  /\ bot_visits = << >>

NextFull ==
  \E c \in GenCallers :
    \/ \E t \in 1..TOTAL_TEMPLATES, s \in FreshSeeds :
         Alone(c) /\ Begin(c, t, s, s) /\ UNCHANGED sched
    \/ Alone(c) /\ DrawAll(c) /\ UNCHANGED sched
    \/ Alone(c) /\ Select(c) /\ UNCHANGED sched
    \/ Alone(c) /\ Finish(c) /\ UNCHANGED sched

SpecFull == InitFull /\ [][NextFull]_vars

(***************************************************************************)
(* Properties of Spec.                                                     *)
(***************************************************************************)
Callers == DOMAIN calls

\* the call has been through get_content_from_nested_structure
HasSelected(call) == call.sel.status # "none"

\* C3: renders only read the hierarchy: whatever renders and selections have
\* run, every section body of the hierarchy is as parse_master_html built it
HierarchyUnchanged == nested_sections = parse_master_html(doc)

\* C4: a render with a template number in 1..TOTAL_TEMPLATES on a hierarchy of
\* at least one outer section never raises, whatever the seed and however few
\* outer or inner sections the hierarchy has
TotalCoverage ==
  \A c \in Callers :
    (/\ calls[c].op = "render"
     /\ calls[c].template_number \in 1..TOTAL_TEMPLATES
     /\ Len(nested_sections) >= 1)
    => calls[c].pc # "raised"

\* a render of the last template number has completed on a hierarchy of one
\* outer section with fewer inner sections than TEMPLATES_PER_TYPE
TotalCoverageWitness ==
  \E c \in Callers :
    /\ calls[c].op = "render"
    /\ calls[c].pc = "done"
    /\ calls[c].template_number = TOTAL_TEMPLATES
    /\ Len(nested_sections) = 1
    /\ Len(nested_sections[1].h2) \in 1..(TEMPLATES_PER_TYPE - 1)
    /\ calls[c].out # ""

\* C6: a selection for n >= 1 on a hierarchy of at least one outer section
\* succeeds and takes the outer section at index ((n-1) div TEMPLATES_PER_TYPE)
\* mod (number of outer sections) and, when that section has inner sections,
\* the inner section at index ((n-1) mod TEMPLATES_PER_TYPE) mod (number of its
\* inner sections)
SelectionFormula ==
  \A c \in Callers :
    LET call == calls[c]
        n == call.template_number
        oi == ((n - 1) \div TEMPLATES_PER_TYPE) % Len(nested_sections)
        outer == nested_sections[oi + 1]
        ii == ((n - 1) % TEMPLATES_PER_TYPE) % Len(outer.h2)
    IN (HasSelected(call) /\ n >= 1 /\ Len(nested_sections) >= 1)
       => /\ call.sel.status = "ok"
          /\ call.sel.top_index = oi
          /\ call.sel.final_soup[1] = Tag("h1", outer.key)
          /\ Len(outer.h2) > 0
             => /\ call.sel.bottom_index = ii
                /\ call.sel.final_soup[2] = Tag("h2", outer.h2[ii + 1].key)

\* n = 7 on two outer sections of two inner sections each has selected outer
\* section 0
SelectionFormulaWitness ==
  \E c \in Callers :
    /\ HasSelected(calls[c])
    /\ calls[c].template_number = 7
    /\ Len(nested_sections) = 2
    /\ \A o \in 1..2 : Len(nested_sections[o].h2) = 2
    /\ calls[c].sel.top_index = 0
    /\ calls[c].sel.final_soup[1] = Tag("h1", nested_sections[1].key)

\* C7: on a hierarchy without outer sections every selection raises the
\* ValueError of the empty hierarchy, whatever n, and a render that gets to the
\* selection ends with that error and without a document
EmptyHierarchyRaises ==
  Len(nested_sections) = 0 =>
    \A c \in Callers :
      /\ calls[c].pc \notin {"subst", "done"}
      /\ HasSelected(calls[c])
         => /\ calls[c].pc = "raised"
            /\ calls[c].err = "ValueError: nested_sections is empty"
            /\ calls[c].out = ""

\* a render with a valid template number has raised the ValueError of the
\* empty hierarchy
EmptyHierarchyRaisesWitness ==
  \E c \in Callers :
    /\ Len(nested_sections) = 0
    /\ calls[c].op = "render"
    /\ calls[c].template_number \in 1..TOTAL_TEMPLATES
    /\ calls[c].pc = "raised"
    /\ calls[c].err = "ValueError: nested_sections is empty"

\* C8: when the selected outer section has no inner sections and the body
\* parse_master_html gave it is empty, the selected body is the fallback
\* paragraph 'Content not available.'
EmptyBodyFallsBack ==
  \A c \in Callers :
    LET call == calls[c]
        parsed == parse_master_html(doc)
        outer == parsed[call.sel.top_index + 1]
    IN (call.sel.status = "ok" /\ Len(outer.h2) = 0 /\ outer.body = << >>)
       => call.sel.final_soup = << Tag("h1", outer.key) >> \o FallbackSoup

\* the three sets of forms of he, him, his, himself: masculine, feminine,
\* gender-neutral
PronounForms ==
  << << "he", "him", "his", "himself" >>,
     << "she", "her", "her", "herself" >>,
     << "they", "them", "their", "themself" >> >>

\* a word in case style st: 1 all-lower, 2 title-case, 3 all-upper
Styled(word, st) ==
  CASE st = 1 -> word
    [] st = 2 -> Capitalize(word)
    [] st = 3 -> Upper(word)

\* the placeholder of pronoun k in case style st
PronounPlaceholder(k, st) == "{" \o Styled(PronounForms[1][k], st) \o "}"

\* the placeholders of pronouns that text has at position b
PronounsAt(text, b) ==
  {ks \in (1..4) \X (1..3) :
     b > 0 /\ StartsWithAt(text, PronounPlaceholder(ks[1], ks[2]), b)}

RECURSIVE Resolved(_, _, _)
RECURSIVE ResolvedAt(_, _, _, _, _)
\* text from position i on, each pronoun placeholder in it replaced by the
\* form of the set number seed mod 3, in the case style of the placeholder
Resolved(text, i, seed) ==
  ResolvedAt(text, i, seed, Find(text, "{", i), PronounsAt(text, Find(text, "{", i)))

\* the same, the next brace being at b (0: none) and opening the placeholders
\* hits
ResolvedAt(text, i, seed, b, hits) ==
  IF b = 0 THEN SubSeq(text, i, Len(text))
  ELSE IF hits = {} THEN SubSeq(text, i, b) \o Resolved(text, b + 1, seed)
  ELSE LET ks == CHOOSE x \in hits : TRUE
       IN SubSeq(text, i, b - 1)
            \o Styled(PronounForms[(seed % 3) + 1][ks[1]], ks[2])
            \o Resolved(text, b + Len(PronounPlaceholder(ks[1], ks[2])), seed)

\* C9: in the content of a finished render every placeholder {he}, {him},
\* {his}, {himself}, all-lower, title-case or all-upper, stands replaced by the
\* form of the masculine set when seed mod 3 = 0, of the feminine set when it
\* is 1, of the gender-neutral set when it is 2, in the case style of the
\* placeholder
PronounResolution ==
  \A c \in Callers :
    (calls[c].op = "render" /\ calls[c].pc = "done")
    => calls[c].html_content = Resolved(calls[c].subst, 1, calls[c].seed)

\* a render with seed mod 3 = 1 has turned {Him} into Her and {HIS} into HER
PronounResolutionWitness ==
  \E c \in Callers :
    /\ calls[c].op = "render"
    /\ calls[c].pc = "done"
    /\ calls[c].seed % 3 = 1
    /\ Contains(calls[c].subst, "{he} {Him}.")
    /\ Contains(calls[c].html_content, "she Her.")
    /\ Contains(calls[c].out, "she Her.")

ArithOps == {"+", "-", "*"}

ArithOperands == {2, 3, 5}

ApplyOp(v, op, k) ==
  CASE op = "+" -> v + k
    [] op = "-" -> v - k
    [] op = "*" -> v * k

\* C10: for every field the number/count branch gives an integer v, a
\* placeholder '<field-name> <op> <k>' with op one of +, -, * and k a decimal
\* integer literal is replaced by the string form of the integer v op k
ArithmeticOnIntegerFields ==
  \A c \in Callers :
    LET call == calls[c]
        fields == PyIndex(FAKE_DATA_TYPES, call.type_index).fields
        rules == PyIndex(RuleTable, call.type_index)
    IN (call.op = "render" /\ call.pc = "done") =>
         \A j \in 1..Len(call.log) :
           \A i \in {x \in 1..Len(fields) : rules[x] = 8} :
             \A op \in ArithOps, k \in ArithOperands :
               call.log[j].ph = fields[i] \o " " \o op \o " " \o IntToStr(k)
               => call.log[j].rep = IntToStr(ApplyOp(call.result[i].v, op, k))

(***************************************************************************)
(* Properties of SpecTwice, SpecConc and SpecBot.                          *)
(***************************************************************************)
\* C1: two renders with the same template number in 1..TOTAL_TEMPLATES and the
\* same seed other than 0 on the same hierarchy return the same output,
\* whatever renders ran before or between them
SameCallSameOutput ==
  \A c, d \in Threads :
    (/\ calls[c].op = "render" /\ calls[c].pc = "done"
     /\ calls[d].op = "render" /\ calls[d].pc = "done"
     /\ calls[c].template_number = calls[d].template_number
     /\ calls[c].seed = calls[d].seed)
    => calls[c].out = calls[d].out

\* C2: the record a render has drawn is the record its seed gives when the
\* render runs alone, whatever the other threads do between its Faker.seed
\* and its last draw
RecordAsAlone ==
  \A c \in Threads :
    (calls[c].op = "render" /\ calls[c].pc \in {"select", "subst", "done"})
    => calls[c].result = RecordAlone(calls[c].type_index, calls[c].seed)

\* C5: all the calls of get_or_create_bot_template_id for a bot name return
\* the same pair of template_id and seed
SamePairPerBot ==
  \A a, b \in Threads :
    (/\ bots[a].pc = "done" /\ bots[b].pc = "done"
     /\ bots[a].bot_name = bots[b].bot_name)
    => /\ bots[a].template_id = bots[b].template_id
       /\ bots[a].seed = bots[b].seed

(***************************************************************************)
(* Properties of SpecGen.                                                  *)
(***************************************************************************)
\* the call is a direct call of generate_fake_data_for_type that has returned
Generated(call) == call.op = "generate" /\ call.pc = "done"

\* C13: generate_fake_data_for_type uses a seed other than 0 as given; for
\* seed 0 the key of its result is a fresh seed s of the range of seeds; and
\* a call with the same type index and the seed that is the key of an
\* earlier result returns the same key and the same record
SeedReported ==
  \A c \in Threads :
    Generated(calls[c]) =>
      /\ calls[c].req_seed # 0 => calls[c].seed = calls[c].req_seed
      /\ calls[c].req_seed = 0 => calls[c].seed \in FreshSeeds
      /\ \A d \in Threads :
           (/\ Generated(calls[d])
            /\ calls[d].type_index = calls[c].type_index
            /\ calls[d].req_seed = calls[c].seed)
           => /\ calls[d].seed = calls[c].seed
              /\ calls[d].result = calls[c].result

\* a call with seed 0 has returned under the key s, and a call of the other
\* caller with seed s has returned the same record
SeedReportedWitness ==
  \E c, d \in Threads :
    /\ c # d
    /\ Generated(calls[c]) /\ Generated(calls[d])
    /\ calls[c].req_seed = 0
    /\ calls[d].req_seed = calls[c].seed
    /\ calls[d].type_index = calls[c].type_index
    /\ calls[c].result # << >>
    /\ calls[d].result = calls[c].result

\* C14: for every type index below 0 or at least the number of types of the
\* catalog generate_fake_data_for_type raises the ValueError of its docstring
\* and returns no record
InvalidTypeIndexRaises ==
  \A c \in Threads :
    (/\ calls[c].op = "generate"
     /\ calls[c].pc \in {"done", "raised"}
     /\ (calls[c].type_index < 0 \/ calls[c].type_index >= Len(FAKE_DATA_TYPES)))
    => /\ calls[c].pc = "raised"
       /\ StartsWith(calls[c].err, "ValueError")
       /\ calls[c].result = << >>

(***************************************************************************)
(* Properties of SpecText.                                                 *)
(***************************************************************************)
\* the call is a render that has returned
Rendered(call) == call.op = "render" /\ call.pc = "done"

\* what follows the name of a field in a placeholder with an arithmetic
\* suffix that is malformed: an operator that is none of + - * /, an operand
\* that is no number, a division by zero
MalformedSuffixes == {" ** 5", " / 0", " + 1.2.3", " % 2", " -- 5", " x 2"}

\* the plain string form of a value
PlainStr(d) ==
  CASE d.kind = "int" -> IntToStr(d.v)
    [] d.kind = "decimal" -> IntToStr(d.units) \o "." \o Pad2(d.cents)
    [] OTHER -> Str(d)

\* the fields of a type whose values are drawn as numbers (integers or
\* decimals) or as locations
SuffixFields(type_index) ==
  {i \in 1..Len(PyIndex(RuleTable, type_index)) :
     PyIndex(RuleTable, type_index)[i] \in {5, 8, 9}
     /\ FirstKey(PyIndex(FieldMaps, type_index),
                 normalize_field(PyIndex(FAKE_DATA_TYPES, type_index).fields[i]), 1)
          = i}

\* C11: a render never raises on a placeholder that names a field and
\* carries a malformed arithmetic suffix, or whose value is no number: the
\* placeholder is replaced by the plain string form of the value
MalformedFallsBack ==
  \A c \in Callers :
    /\ calls[c].op = "render" => calls[c].pc # "raised"
    /\ Rendered(calls[c]) =>
         LET fields == PyIndex(FAKE_DATA_TYPES, calls[c].type_index).fields IN
         \A j \in 1..Len(calls[c].log) :
           \A i \in SuffixFields(calls[c].type_index), sfx \in MalformedSuffixes :
             calls[c].log[j].ph = fields[i] \o sfx
             => calls[c].log[j].rep = PlainStr(calls[c].result[i])

\* C12: for every template number in 1..TOTAL_TEMPLATES and every seed the
\* string generate_complete_template returns contains "<h1>" and contains no
\* "{"
NoBraceInOutput ==
  \A c \in Callers :
    (Rendered(calls[c]) /\ calls[c].template_number \in 1..TOTAL_TEMPLATES)
    => /\ Contains(calls[c].out, "<h1>")
       /\ ~Contains(calls[c].out, "{")

\* C15: two placeholders of a body that differ only in the case of their
\* letters and resolve to the same field are replaced by the same text
CaseBlindDispatch ==
  \A c \in Callers :
    Rendered(calls[c]) =>
      \A j, k \in 1..Len(calls[c].log) :
        (/\ Lower(calls[c].log[j].ph) = Lower(calls[c].log[k].ph)
         /\ calls[c].log[j].idx >= 0
         /\ calls[c].log[j].idx = calls[c].log[k].idx)
        => calls[c].log[j].rep = calls[c].log[k].rep

\* the first field, in the order of declaration, whose normalized name is the
\* normalized placeholder or a prefix of it; 0 when no field is
FirstDeclared(fields, placeholder) ==
  LET norm == normalize_field(placeholder)
      S == {i \in 1..Len(fields) :
              normalize_field(fields[i]) = norm
              \/ StartsWith(norm, normalize_field(fields[i]))}
  IN IF S = {} THEN 0 ELSE CHOOSE i \in S : \A m \in S : i <= m

\* C16: every placeholder is resolved against the first field, in the order
\* of declaration of the type, whose normalized name equals the normalized
\* placeholder or is a prefix of it, and replaced by the formatted value of
\* the record at the index of that field; a placeholder that matches no field
\* is left as written
FirstDeclaredFieldWins ==
  \A c \in Callers :
    Rendered(calls[c]) =>
      LET fields == PyIndex(FAKE_DATA_TYPES, calls[c].type_index).fields IN
      \A j \in 1..Len(calls[c].log) :
        LET e == calls[c].log[j]
            i == FirstDeclared(fields, e.ph)
        IN IF i = 0 THEN e.idx = -1 /\ e.rep = "{" \o e.ph \o "}"
           ELSE /\ e.idx = i - 1
                /\ e.rep = stringify_fake_datum(calls[c].result[i], e.ph).s

\* C18: a pronoun placeholder in mixed case, {hIM}, is not left in the
\* content of a render: the pronoun of the set of the seed stands in its
\* place, in lower case
MixedCasePronoun ==
  \A c \in Callers :
    (Rendered(calls[c]) /\ Contains(calls[c].subst, "<p>{hIM} {hE} "))
    => /\ ~Contains(calls[c].html_content, "{hIM}")
       /\ Contains(calls[c].html_content,
                   "<p>" \o PronounForms[(calls[c].seed % 3) + 1][2] \o " "
                     \o PronounForms[(calls[c].seed % 3) + 1][1] \o " ")

(***************************************************************************)
(* Properties of SpecParse.                                                *)
(***************************************************************************)
\* the positions of the tags called name in els, in increasing order
PositionsOf(els, name) ==
  LET S == {i \in 1..Len(els) : els[i].name = name}
  IN [k \in 1..Cardinality(S) |->
        CHOOSE i \in S : Cardinality({m \in S : m < i}) = k - 1]

\* what lies between the k-th tag called name and the next one, or the end
Between(els, name, k) ==
  LET at == PositionsOf(els, name)
  IN SubSeq(els, at[k] + 1, IF k < Len(at) THEN at[k + 1] - 1 ELSE Len(els))

\* the entry of an outer section with that title and that content
SectionOf(title, content) ==
  LET h2 == PositionsOf(content, "h2")
  IN IF Len(h2) = 0
     THEN [key |-> title, kind |-> "soup", h2 |-> << >>, body |-> content]
     ELSE [key |-> title, kind |-> "dict", body |-> << >>,
           h2 |-> [k \in 1..Len(h2) |->
                     [key |-> Strip(content[h2[k]].text),
                      body |-> Between(content, "h2", k)]]]

\* one entry per primary heading, in the order of the document, each with its
\* secondary headings in their order
Sections(els) ==
  [k \in 1..Len(PositionsOf(els, "h1")) |->
     SectionOf(Strip(els[PositionsOf(els, "h1")[k]].text), Between(els, "h1", k))]

\* no two entries of a sequence of entries have the same key
DistinctKeys(entries) ==
  \A i, j \in 1..Len(entries) : entries[i].key = entries[j].key => i = j

\* no two primary headings have the same title, and no two secondary headings
\* of a section have
DistinctTitles(els) ==
  /\ DistinctKeys(Sections(els))
  /\ \A k \in 1..Len(Sections(els)) : DistinctKeys(Sections(els)[k].h2)

\* parse_master_html has returned and nothing has been selected since
Parsed == \E c \in Callers : calls[c].op = "parse" /\ calls[c].pc = "done"

\* C17 as stated: for every document the hierarchy has one outer entry per
\* primary heading, in the order of the document; a section with secondary
\* headings maps each of their titles to the content up to the next secondary
\* heading or the end of the section, a section without maps to all of its
\* content, and a document without primary heading gives the empty hierarchy
ParsedBySections == Parsed => nested_sections = Sections(doc)

\* C17 as amended: the same for every document in which no two primary
\* headings have the same title and no two secondary headings of a section
\* have the same title
ParsedBySectionsDistinct ==
  (Parsed /\ DistinctTitles(doc)) => nested_sections = Sections(doc)

\* a document of a section with two secondary headings and a section without
\* any has been parsed
ParsedBySectionsWitness ==
  /\ Parsed
  /\ DistinctTitles(doc)
  /\ Len(nested_sections) = 2
  /\ nested_sections[1].kind = "dict" /\ Len(nested_sections[1].h2) = 2
  /\ nested_sections[2].kind = "soup"

(***************************************************************************)
(* Properties of Spec: what a failing render leaves behind.                *)
(***************************************************************************)
\* C19: a render that fails, for a template number outside
\* 1..TOTAL_TEMPLATES or for an empty hierarchy, has drawn nothing from the
\* generator of the random module and has neither reseeded the generator of
\* Faker nor drawn from it, whatever the seed, 0 included: on the empty
\* hierarchy, where every render fails, the generator of Faker stays as the
\* startup left it
FailedRenderTouchesNothing ==
  \A c \in Callers :
    (calls[c].op = "render" /\ calls[c].pc = "raised")
    => /\ Randints(calls[c].req_seed) = 0
       /\ calls[c].result = << >>
       /\ Len(nested_sections) = 0 => rng = FakerSeed(0)

(***************************************************************************)
(* Properties of SpecFull.                                                 *)
(***************************************************************************)
\* the render has its section selected
SelectedRender(call) == call.op = "render" /\ call.sel.status = "ok"

\* C20: on the hierarchy of NUM_TEMPLATE_TYPES outer sections of
\* TEMPLATES_PER_TYPE inner sections each, two renders with different
\* template numbers of 1..TOTAL_TEMPLATES select different pairs of outer and
\* inner section, and the outer index a render selects is the type index its
\* record is generated for
DistinctSectionPerTemplate ==
  \A c, d \in Threads :
    (SelectedRender(calls[c]) /\ SelectedRender(calls[d]))
    => /\ calls[c].sel.top_index = calls[c].type_index
       /\ calls[c].sel.bottom_index \in 0..(TEMPLATES_PER_TYPE - 1)
       /\ calls[c].template_number # calls[d].template_number
          => <<calls[c].sel.top_index, calls[c].sel.bottom_index>>
               # <<calls[d].sel.top_index, calls[d].sel.bottom_index>>

\* template 1 has selected the first inner section of the first outer
\* section and template TOTAL_TEMPLATES the last of the last, with the record
\* of the last type
DistinctSectionPerTemplateWitness ==
  \E c, d \in Threads :
    /\ SelectedRender(calls[c]) /\ SelectedRender(calls[d])
    /\ Len(nested_sections) = NUM_TEMPLATE_TYPES
    /\ calls[c].template_number = 1
    /\ calls[c].sel.top_index = 0 /\ calls[c].sel.bottom_index = 0
    /\ calls[d].template_number = TOTAL_TEMPLATES
    /\ calls[d].sel.top_index = NUM_TEMPLATE_TYPES - 1
    /\ calls[d].sel.bottom_index = TEMPLATES_PER_TYPE - 1
    /\ calls[d].type_index = NUM_TEMPLATE_TYPES - 1
    /\ calls[d].pc = "done"

(***************************************************************************)
(* Properties of SpecGen: the classification of the field names.           *)
(***************************************************************************)
\* C21: a field whose name contains "nickname" is taken by the branch of
\* "nickname", no earlier branch of the chain taking it, and its value in the
\* record of a type of the catalog is the string of fake.user_name()
NicknameIsHandle ==
  \A c \in Threads :
    (Generated(calls[c]) /\ calls[c].type_index \in 0..(Len(FAKE_DATA_TYPES) - 1)) =>
      LET fields == PyIndex(FAKE_DATA_TYPES, calls[c].type_index).fields IN
      \A i \in 1..Len(fields) :
        Contains(Lower(fields[i]), "nickname")
        => /\ FieldRule(fields[i]) = 11
           /\ calls[c].result[i].kind = "str"
           /\ StartsWith(calls[c].result[i].s, "user")

====
